---------------------------- MODULE Spec2Model ----------------------------
(***************************************************************************)
(* A model of led_clock.py: the MAX7219 LED clock.                         *)
(*                                                                         *)
(* The main loop (main, lines 309-390) is one process whose position is    *)
(* pc.  The animation sub-loops (hour_sparkle, marquee_once_legacy,        *)
(* minute_swipe) take one step per frame, so that a signal (handle_signal) *)
(* may arrive between any two frames.  The pure helpers (_in_window,       *)
(* draw_time_with_custom_colon, draw_seconds_bar) are operators, computed  *)
(* as the code computes them, and are also exercised on their own by the   *)
(* specifications WindowSpec, LayoutSpec and BarSpec; TickerSpec runs one   *)
(* call of marquee_once_legacy over a range of geometries.                 *)
(***************************************************************************)
EXTENDS Integers, Sequences, FiniteSets, TLC

VARIABLES
    pc,                     \* position of main / of the function under study
    stop,                   \* the global stop flag (line 32)
    raised,                 \* an exception is propagating out of the try body
    now,                    \* main's local now = datetime.now() (line 312)
    current_brt,            \* line 299 / 320
    last_minute_for_dim,    \* line 300 / 316
    last_rendered_minute,   \* line 303 / 369
    since_ticker,           \* time.monotonic() - last_ticker_ts, saturated at ticker_every
    s,                      \* main's local s = now.strftime(time_fmt) (line 334)
    k,                      \* hour_sparkle: frames drawn so far
    offset,                 \* marquee_once_legacy: loop variable offset
    dx,                     \* minute_swipe: loop variable dx
    x,                      \* marquee_once_legacy: x of the frame drawn last
    device,                 \* the display: contrast level, last operation, clear() calls, frame shown
    auto_dim,               \* LED_AUTO_DIM
    sparkle_on_hour,        \* LED_SPARKLE_ON_HOUR
    minute_swipe_en,        \* LED_MINUTE_SWIPE
    geom,                   \* marquee geometry: device.width, text width w, gap
    ran,                    \* the animations main called in the current iteration
    repeat_sec,             \* this iteration reads the clock second in which the previous one ran the sparkle
    passed_top,             \* a top-of-hour second went by between the previous reading and this one
    after_stop,             \* static frames drawn while stop was set
    args,                   \* arguments of the pure function under study
    ret                     \* its result

vars == <<pc, stop, raised, now, current_brt, last_minute_for_dim,
          last_rendered_minute, since_ticker, s, k, offset, dx, x, device,
          auto_dim, sparkle_on_hour, minute_swipe_en, geom, ran, repeat_sec,
          passed_top, after_stop, args, ret>>

progVars == <<pc, raised, now, current_brt, last_minute_for_dim,
              last_rendered_minute, since_ticker, s, k, offset, dx, x, device,
              ran, repeat_sec, passed_top, after_stop>>
progVars_noPc == <<raised, now, current_brt, last_minute_for_dim,
                   last_rendered_minute, since_ticker, s, k, offset, dx, x,
                   device, ran, repeat_sec, passed_top, after_stop>>
cfgVars == <<auto_dim, sparkle_on_hour, minute_swipe_en, geom>>
fnVars == <<args, ret>>

---------------------------------------------------------------------------
(* Bounds of the model *)

\* frames one hour_sparkle call draws when it is not interrupted
\* (duration / frame_dt, lines 208-210)
SparkleFrames == 2
\* LED_MINUTE_SWIPE_PX as configured for the main-loop model
SwipePx == 2
\* LED_TICKER_EVERY, in units of elapsed monotonic time
TickerEvery == 2
\* marquee geometry of the main-loop model: device.width, text width, gap
MainWidth == 1
MainTextW == 1
MainGap == 0
\* marquee geometry of TickerSpec
MaxCascaded == 2
MaxTextW == 3
MaxGap == 2
\* draw_time_with_custom_colon: widest hour / minute text, largest reserved
\* width and largest swipe offset tried
MaxTextPx == 5
MaxReserved == 12
MaxOffset == 1

---------------------------------------------------------------------------
(* Program constants *)

day_brt == 12
night_brt == 3
night_from == <<22, 30>>
night_to == <<7, 0>>
\* None of last_rendered_minute: a value no minute equals
None == -2
\* LED_CASCADED and the 8x8 modules of the display: device.width = 8 * cascaded
cascaded == 4
\* device.height
DeviceHeight == 8
\* the height textsize() reports for the legacy fonts
TextHeight == 8
\* LED_COLON_VGAP
colon_vgap == 2

T(h, m, sec) == [hour |-> h, minute |-> m, second |-> sec]

\* The readings datetime.now() may return in the main-loop model
Instants ==
    { T(22, 29, 59), T(22, 30, 0), T(23, 0, 0), T(23, 29, 59), T(23, 59, 59),
      T(0, 0, 0), T(0, 0, 1), T(6, 59, 59), T(7, 0, 0), T(12, 0, 0) }

Min(a, b) == IF a <= b THEN a ELSE b
Max(a, b) == IF a >= b THEN a ELSE b

---------------------------------------------------------------------------
(* _in_window, lines 60-68 *)

InWindowEndInclusive(t, start_hm, end_hm) ==
    LET cur == t.hour * 60 + t.minute
        st  == start_hm[1] * 60 + start_hm[2]
        e   == end_hm[1] * 60 + end_hm[2]
    IN  IF st <= e THEN st <= cur /\ cur <= e
                   ELSE cur >= st \/ cur <= e

_in_window(t, start_hm, end_hm) ==
    LET cur == t.hour * 60 + t.minute
        st  == start_hm[1] * 60 + start_hm[2]
        e   == end_hm[1] * 60 + end_hm[2]
    IN  IF st <= e THEN st <= cur /\ cur < e
                   ELSE cur >= st \/ cur < e

\* target of lines 295 and 317
Target(t) == IF _in_window(t, night_from, night_to) THEN night_brt ELSE day_brt

---------------------------------------------------------------------------
(* now.strftime("%H:%M"), line 334: five characters *)

Digits == <<"0", "1", "2", "3", "4", "5", "6", "7", "8", "9">>
Digit(n) == Digits[n + 1]
Strftime(t) == << Digit(t.hour \div 10), Digit(t.hour % 10), ":",
                  Digit(t.minute \div 10), Digit(t.minute % 10) >>
NoStr == << >>

---------------------------------------------------------------------------
(* The wall clock between two readings *)

SecOfDay(t) == (t.hour * 60 + t.minute) * 60 + t.second
\* seconds from reading a to reading b; adv = FALSE: the same clock second
Elapsed(a, b, adv) ==
    IF ~adv THEN 0
    ELSE LET d == (SecOfDay(b) - SecOfDay(a)) % 86400
         IN  IF d = 0 THEN 86400 ELSE d
\* a second with minute = 0 and second = 0 lies strictly between a and b
PassedTop(a, b, adv) == 3600 - (SecOfDay(a) % 3600) < Elapsed(a, b, adv)

---------------------------------------------------------------------------
(* The display device *)

\* device.contrast(level), lines 296 and 319
Contrast(d, level) == [d EXCEPT !.contrast = level, !.last = "contrast"]
\* with canvas(device) as draw: ... of an animation frame (lines 190, 211)
DrawFrame(d, kind) == [d EXCEPT !.last = kind]
\* with canvas(device) as draw: ... of a frame that shows the time (lines 229, 373)
DrawTime(d, kind, timestr) == [d EXCEPT !.last = kind, !.time_shown = timestr]
\* device.clear(), line 390
Clear(d) == [d EXCEPT !.last = "clear", !.clears = @ + 1]

\* Total without the trailing gap
TotalNoGap(g) == g.width + g.w

\* total of marquee_once_legacy, line 184
Total(g) == g.width + g.w + g.gap

\* the steps of the try body, lines 310-388
TrySteps == { "head", "dim", "sparkle", "sparkle_loop", "ticker", "marquee",
              "prep", "swipe", "swipe_loop", "frame", "sleep" }

---------------------------------------------------------------------------
(* main, lines 293-390 *)

\* lines 293-310: the state when the loop is first entered
Init ==
    /\ pc = "head"
    /\ stop = FALSE
    /\ raised = FALSE
    /\ now \in Instants
    /\ current_brt = Target(now)
    /\ last_minute_for_dim = -1
    /\ last_rendered_minute = None
    /\ since_ticker = 0
    /\ s = NoStr
    /\ k = 0 /\ offset = 0 /\ dx = 0 /\ x = 0
    /\ device = [contrast |-> Target(now), last |-> "contrast", clears |-> 0,
                 time_shown |-> NoStr]
    /\ auto_dim \in BOOLEAN
    /\ sparkle_on_hour \in BOOLEAN
    /\ minute_swipe_en \in BOOLEAN
    /\ geom = [width |-> MainWidth, w |-> MainTextW, gap |-> MainGap]
    /\ ran = {}
    /\ repeat_sec = FALSE
    /\ passed_top = FALSE
    /\ after_stop = 0
    /\ args = [fn |-> "main"]
    /\ ret = [fn |-> "main"]

\* handle_signal, lines 70-72
HandleSignal ==
    /\ pc \in TrySteps \cup {"finally"}
    /\ stop' = TRUE
    /\ UNCHANGED <<progVars, cfgVars, fnVars>>

\* line 311, stop set: leave the loop
LoopExit ==
    /\ pc = "head"
    /\ stop
    /\ pc' = "finally"
    /\ UNCHANGED <<stop, raised, now, current_brt, last_minute_for_dim,
                   last_rendered_minute, since_ticker, s, k, offset, dx, x,
                   device, ran, repeat_sec, passed_top, after_stop, cfgVars, fnVars>>

\* lines 311-312, stop clear: now = datetime.now().  adv: the clock has moved
\* on to another second since the previous reading
ReadClock ==
    /\ pc = "head"
    /\ ~stop
    /\ \E adv \in BOOLEAN :
          \E t \in (IF adv THEN Instants ELSE {now}) :
             /\ now' = t
             /\ repeat_sec' = (~adv /\ "sparkle" \in ran)
             /\ passed_top' = (device.time_shown # NoStr /\ PassedTop(now, t, adv))
    /\ ran' = {}
    /\ pc' = "dim"
    /\ UNCHANGED <<stop, raised, current_brt, last_minute_for_dim,
                   last_rendered_minute, since_ticker, s, k, offset, dx, x,
                   device, after_stop, cfgVars, fnVars>>

\* lines 314-320
AutoDim ==
    /\ pc = "dim"
    /\ IF auto_dim /\ now.minute # last_minute_for_dim
       THEN /\ last_minute_for_dim' = now.minute
            /\ IF Target(now) # current_brt
               THEN /\ device' = Contrast(device, Target(now))
                    /\ current_brt' = Target(now)
               ELSE UNCHANGED <<device, current_brt>>
       ELSE UNCHANGED <<last_minute_for_dim, device, current_brt>>
    /\ pc' = "sparkle"
    /\ UNCHANGED <<stop, raised, now, last_rendered_minute, since_ticker, s,
                   k, offset, dx, x, ran, repeat_sec, passed_top, after_stop,
                   cfgVars, fnVars>>

\* line 323: the condition of the hour sparkle
SparkleDue == sparkle_on_hour /\ now.minute = 0 /\ now.second = 0

\* lines 322-325: call hour_sparkle or go on
SparkleCheck ==
    /\ pc = "sparkle"
    /\ IF SparkleDue
       THEN /\ pc' = "sparkle_loop"
            /\ ran' = ran \cup {"sparkle"}
       ELSE /\ pc' = "ticker"
            /\ ran' = ran
    /\ k' = 0
    /\ UNCHANGED <<stop, raised, now, current_brt, last_minute_for_dim,
                   last_rendered_minute, since_ticker, s, offset, dx, x,
                   device, repeat_sec, passed_top, after_stop, cfgVars, fnVars>>

\* line 210: the loop condition of hour_sparkle
SparkleGoesOn == k < SparkleFrames /\ ~stop

\* hour_sparkle, lines 210-216: one frame
SparkleFrame ==
    /\ pc = "sparkle_loop"
    /\ SparkleGoesOn
    /\ device' = DrawFrame(device, "sparkle")
    /\ k' = k + 1
    /\ UNCHANGED <<pc, stop, raised, now, current_brt, last_minute_for_dim,
                   last_rendered_minute, since_ticker, s, offset, dx, x, ran,
                   repeat_sec, passed_top, after_stop, cfgVars, fnVars>>

\* hour_sparkle, line 210: the loop ends
SparkleReturn ==
    /\ pc = "sparkle_loop"
    /\ ~SparkleGoesOn
    /\ pc' = "ticker"
    /\ k' = 0
    /\ UNCHANGED <<stop, raised, now, current_brt, last_minute_for_dim,
                   last_rendered_minute, since_ticker, s, offset, dx, x,
                   device, ran, repeat_sec, passed_top, after_stop, cfgVars, fnVars>>

\* TickerDue without the exclusion of the top-of-hour second
TickerDueNoSkip == since_ticker >= TickerEvery

\* line 328: the condition of the date ticker
TickerDue == since_ticker >= TickerEvery /\ ~(now.minute = 0 /\ now.second = 0)

\* lines 327-330: call marquee_once_legacy or go on
TickerCheck ==
    /\ pc = "ticker"
    /\ IF TickerDue
       THEN /\ pc' = "marquee"
            /\ ran' = ran \cup {"ticker"}
       ELSE /\ pc' = "prep"
            /\ ran' = ran
    /\ offset' = 0
    /\ UNCHANGED <<stop, raised, now, current_brt, last_minute_for_dim,
                   last_rendered_minute, since_ticker, s, k, dx, x, device,
                   repeat_sec, passed_top, after_stop, cfgVars, fnVars>>

\* MarqueeGoesOn without the poll of the stop flag
MarqueeGoesOnNoPoll == offset < Total(geom)

\* lines 185-187: the loop of marquee_once_legacy goes on
MarqueeGoesOn == offset < Total(geom) /\ ~stop

\* line 188
MarqueeX == geom.width - offset

\* marquee_once_legacy, lines 185-192: one frame and its delay
MarqueeFrame ==
    /\ pc = "marquee"
    /\ MarqueeGoesOn
    /\ x' = MarqueeX
    /\ device' = DrawFrame(device, "marquee")
    /\ offset' = offset + 1
    /\ UNCHANGED <<pc, stop, raised, now, current_brt, last_minute_for_dim,
                   last_rendered_minute, since_ticker, s, k, dx, ran,
                   repeat_sec, passed_top, after_stop, cfgVars, fnVars>>

\* marquee_once_legacy returns (lines 185-187), then line 331
MarqueeReturn ==
    /\ pc = "marquee"
    /\ ~MarqueeGoesOn
    /\ since_ticker' = 0
    /\ pc' = "prep"
    /\ offset' = 0
    /\ x' = 0
    /\ UNCHANGED <<stop, raised, now, current_brt, last_minute_for_dim,
                   last_rendered_minute, s, k, dx, device, ran, repeat_sec,
                   passed_top, after_stop, cfgVars, fnVars>>

\* lines 333-361: the time string (and the temperature widget, which no
\* later step's control depends on)
Prepare ==
    /\ pc = "prep"
    /\ s' = Strftime(now)
    /\ pc' = "swipe"
    /\ UNCHANGED <<stop, raised, now, current_brt, last_minute_for_dim,
                   last_rendered_minute, since_ticker, k, offset, dx, x,
                   device, ran, repeat_sec, passed_top, after_stop, cfgVars, fnVars>>

\* SwipeDue comparing against the minute of the dimmer instead
SwipeDueDimMinute ==
    minute_swipe_en /\ (last_rendered_minute = None \/ now.minute # last_minute_for_dim)

\* line 364: the condition of the minute swipe
SwipeDue ==
    minute_swipe_en /\ (last_rendered_minute = None \/ now.minute # last_rendered_minute)

\* lines 363-368: call minute_swipe or go on; line 225
SwipeCheck ==
    /\ pc = "swipe"
    /\ IF SwipeDue
       THEN /\ pc' = "swipe_loop"
            /\ ran' = ran \cup {"swipe"}
            /\ dx' = Max(1, SwipePx)
       ELSE /\ pc' = "frame"
            /\ ran' = ran
            /\ dx' = 0
    /\ UNCHANGED <<stop, raised, now, current_brt, last_minute_for_dim,
                   last_rendered_minute, since_ticker, s, k, offset, x,
                   device, repeat_sec, passed_top, after_stop, cfgVars, fnVars>>

\* lines 226-228: the loop of minute_swipe goes on
SwipeGoesOn == dx >= 0 /\ ~stop

\* minute_swipe, lines 226-238: one frame and its delay
SwipeFrame ==
    /\ pc = "swipe_loop"
    /\ SwipeGoesOn
    /\ device' = DrawTime(device, "swipe", s)
    /\ dx' = dx - 1
    /\ UNCHANGED <<pc, stop, raised, now, current_brt, last_minute_for_dim,
                   last_rendered_minute, since_ticker, s, k, offset, x, ran,
                   repeat_sec, passed_top, after_stop, cfgVars, fnVars>>

\* minute_swipe returns (lines 226-228), then line 369
SwipeReturn ==
    /\ pc = "swipe_loop"
    /\ ~SwipeGoesOn
    /\ last_rendered_minute' = now.minute
    /\ pc' = "frame"
    /\ dx' = 0
    /\ UNCHANGED <<stop, raised, now, current_brt, last_minute_for_dim,
                   since_ticker, s, k, offset, x, device, ran, repeat_sec,
                   passed_top, after_stop, cfgVars, fnVars>>

\* lines 372-386: the normal static frame
StaticFrame ==
    /\ pc = "frame"
    /\ device' = DrawTime(device, "static", s)
    /\ after_stop' = IF stop THEN after_stop + 1 ELSE after_stop
    /\ pc' = "sleep"
    /\ UNCHANGED <<stop, raised, now, current_brt, last_minute_for_dim,
                   last_rendered_minute, since_ticker, s, k, offset, dx, x,
                   ran, repeat_sec, passed_top, cfgVars, fnVars>>

\* line 388: time.sleep(0.2); monotonic time moves on
Sleep ==
    /\ pc = "sleep"
    /\ \E d \in 1..Max(1, TickerEvery) :
          since_ticker' = Min(since_ticker + d, TickerEvery)
    /\ pc' = "head"
    /\ UNCHANGED <<stop, raised, now, current_brt, last_minute_for_dim,
                   last_rendered_minute, s, k, offset, dx, x, device, ran,
                   repeat_sec, passed_top, after_stop, cfgVars, fnVars>>

\* an unexpected error in a step of the try body (line 309) unwinds to finally
Raise ==
    /\ pc \in TrySteps \ {"head"}
    /\ raised' = TRUE
    /\ pc' = "finally"
    /\ k' = 0 /\ offset' = 0 /\ dx' = 0 /\ x' = 0
    /\ UNCHANGED <<stop, now, current_brt, last_minute_for_dim,
                   last_rendered_minute, since_ticker, s, device, ran,
                   repeat_sec, passed_top, after_stop, cfgVars, fnVars>>

\* FinallyDevice as an except-free cleanup after the loop would be: skipped
\* when an error propagates
FinallyDeviceSkippedOnError == IF raised THEN device ELSE Clear(device)

\* what the finally block does to the display, lines 389-390
FinallyDevice == Clear(device)

\* lines 389-390: finally: device.clear(), then main returns or the error propagates
Finally ==
    /\ pc = "finally"
    /\ device' = FinallyDevice
    /\ pc' = "exit"
    /\ UNCHANGED <<stop, raised, now, current_brt, last_minute_for_dim,
                   last_rendered_minute, since_ticker, s, k, offset, dx, x,
                   ran, repeat_sec, passed_top, after_stop, cfgVars, fnVars>>

\* the steps of the program itself
Program ==
    \/ LoopExit
    \/ ReadClock
    \/ AutoDim
    \/ SparkleCheck
    \/ SparkleFrame
    \/ SparkleReturn
    \/ TickerCheck
    \/ MarqueeFrame
    \/ MarqueeReturn
    \/ Prepare
    \/ SwipeCheck
    \/ SwipeFrame
    \/ SwipeReturn
    \/ StaticFrame
    \/ Sleep
    \/ Finally

Next ==
    \/ Program
    \/ HandleSignal
    \/ Raise

Spec == Init /\ [][Next]_vars

\* the interpreter always runs the next step of the single thread
FairSpec == Spec /\ WF_vars(Program)

---------------------------------------------------------------------------
(* marquee_once_legacy on its own *)

DeviceWidths == { 8 * c : c \in 1..MaxCascaded }

TickerInit ==
    /\ pc = "marquee"
    /\ stop = FALSE
    /\ raised = FALSE
    /\ now = T(12, 0, 1)
    /\ current_brt = Target(now)
    /\ last_minute_for_dim = -1
    /\ last_rendered_minute = None
    /\ since_ticker = TickerEvery
    /\ s = NoStr
    /\ k = 0 /\ offset = 0 /\ dx = 0 /\ x = 0
    /\ device = [contrast |-> Target(now), last |-> "contrast", clears |-> 0,
                 time_shown |-> NoStr]
    /\ auto_dim = TRUE
    /\ sparkle_on_hour = TRUE
    /\ minute_swipe_en = TRUE
    /\ geom \in [width : DeviceWidths, w : 0..MaxTextW, gap : 0..MaxGap]
    /\ ran = {"ticker"}
    /\ repeat_sec = FALSE
    /\ passed_top = FALSE
    /\ after_stop = 0
    /\ args = [fn |-> "marquee_once_legacy"]
    /\ ret = [fn |-> "marquee_once_legacy"]

TickerNext ==
    \/ MarqueeFrame
    \/ MarqueeReturn
    \/ HandleSignal

TickerSpec == TickerInit /\ [][TickerNext]_vars /\ WF_vars(MarqueeFrame \/ MarqueeReturn)

---------------------------------------------------------------------------
(* Claims about the main loop *)

\* the steps of an iteration after the brightness step
AfterDim == { "sparkle", "sparkle_loop", "ticker", "marquee", "prep", "swipe",
              "swipe_loop", "frame", "sleep" }
\* the steps of an iteration after the sparkle step
AfterSparkle == AfterDim \ {"sparkle"}

DigitVal(c) == CHOOSE n \in 0..9 : Digits[n + 1] = c
\* the minute a displayed time string shows
MinuteOf(str) == DigitVal(str[4]) * 10 + DigitVal(str[5])

\* C1: with auto-dim enabled, after the brightness step of every iteration the
\* level last sent to the display by contrast() is the night level if the
\* iteration's time lies in [night_from, night_to) and the day level otherwise.
C1_BrightnessFollowsWindow ==
    (auto_dim /\ pc \in AfterDim) =>
        device.contrast = (IF _in_window(now, night_from, night_to)
                           THEN night_brt ELSE day_brt)

\* C3: on every exit path of the main loop (stop seen at the loop head, or an
\* error raised in a step of an iteration) clear() is called exactly once
\* before the process exits, and it is the last operation on the display.
C3_ClearedOnEveryExit ==
    /\ pc = "exit" => (device.clears = 1 /\ device.last = "clear")
    /\ pc \in TrySteps => device.clears = 0

C3_Witness ==
    pc = "exit" /\ raised /\ ~stop /\ device.time_shown # NoStr /\ device.last = "clear"

\* a step in which an animation sub-loop draws a further frame
AnimFrameStep ==
    /\ pc \in {"sparkle_loop", "marquee", "swipe_loop"}
    /\ pc' = pc
    /\ <<k, offset, dx>>' # <<k, offset, dx>>

\* C4: a signal only sets the stop flag and the flag is never reset; once it
\* is set no animation sub-loop begins another frame, the main loop draws at
\* most one more static frame and starts no new iteration, and the program
\* leaves the loop, clears the display and terminates.
C4_Shutdown ==
    /\ [][stop => stop']_vars
    /\ [][stop' # stop => UNCHANGED <<progVars, cfgVars>>]_vars
    /\ [][stop => ~AnimFrameStep]_vars
    /\ [][(stop /\ pc = "head") => pc' \in {"head", "finally"}]_vars
    /\ [](after_stop <= 1)
    /\ (stop ~> (pc = "exit" /\ device.last = "clear"))

C4_Witness ==
    pc = "exit" /\ stop /\ ~raised /\ after_stop = 1 /\ "swipe" \in ran

\* C5: with the hour sparkle enabled the sparkle is triggered exactly once for
\* each top of the hour: never at another time, not a second time for the same
\* top-of-hour second, and no top-of-hour second goes by without it.
C5_SparkleExactlyOncePerHour ==
    sparkle_on_hour =>
        /\ "sparkle" \in ran => (now.minute = 0 /\ now.second = 0)
        /\ ~("sparkle" \in ran /\ repeat_sec)
        /\ ~passed_top
        /\ (pc \in AfterSparkle /\ now.minute = 0 /\ now.second = 0) => "sparkle" \in ran

\* C6: with the minute swipe enabled, minute_swipe runs in an iteration exactly
\* when no time has been rendered yet or the iteration's minute differs from
\* the minute rendered last, at most once per iteration, and with the time
\* string of the iteration's own time.
C6_SwipeOncePerMinuteChange ==
    /\ [][(minute_swipe_en /\ pc = "swipe" /\ pc' \in {"swipe_loop", "frame"})
            => /\ "swipe" \notin ran
               /\ ("swipe" \in ran')
                    <=> (device.time_shown = NoStr
                         \/ MinuteOf(device.time_shown) # now.minute)]_vars
    /\ [][(minute_swipe_en /\ AnimFrameStep /\ pc = "swipe_loop")
            => /\ device'.time_shown = Strftime(now)
               /\ MinuteOf(device'.time_shown) = now.minute]_vars
    /\ []((pc = "swipe_loop" \/ "swipe" \in ran) => minute_swipe_en)

C6_Witness ==
    /\ pc = "swipe_loop"
    /\ device.last = "swipe"
    /\ last_rendered_minute # None
    /\ last_rendered_minute # now.minute
    /\ device.time_shown = Strftime(now)

\* C7: in an iteration whose time reads minute 0, second 0 the ticker does not
\* run even when it is due, and the time since the last ticker is not reset, so
\* it stays due; the sparkle and the ticker never both run in one iteration;
\* and the iteration that follows 23:59 at 00:00:00 runs the sparkle and the
\* swipe and skips the ticker.
C7_TickerSkippedAtTopOfHour ==
    /\ []((now.minute = 0 /\ now.second = 0) => "ticker" \notin ran)
    /\ [](~({"sparkle", "ticker"} \subseteq ran))
    /\ [][(pc = "ticker" /\ now.minute = 0 /\ now.second = 0)
            => (since_ticker' = since_ticker /\ pc' \in {"ticker", "prep", "finally"})]_vars
    /\ [][(pc = "swipe" /\ pc' # "finally" /\ pc' # pc /\ now = T(0, 0, 0)
             /\ device.time_shown = Strftime(T(23, 59, 59))
             /\ sparkle_on_hour /\ minute_swipe_en)
            => ran' = {"sparkle", "swipe"}]_vars

C7_Witness ==
    /\ pc = "frame"
    /\ now = T(0, 0, 0)
    /\ ran = {"sparkle", "swipe"}
    /\ since_ticker >= TickerEvery

\* C10: one uninterrupted run of the date ticker terminates after exactly
\* width + text width + gap frames, x starting at the display width and going
\* down by one per frame; once the stop flag is set it draws no further frame
\* and returns.
C10_TickerScroll ==
    /\ [][(AnimFrameStep /\ pc = "marquee")
            => /\ ~stop
               /\ offset' = offset + 1
               /\ x' = (IF offset = 0 THEN geom.width ELSE x - 1)]_vars
    /\ [][(pc = "marquee" /\ pc' # "marquee" /\ ~stop)
            => /\ offset = geom.width + geom.w + geom.gap
               /\ x = 1 - geom.w - geom.gap]_vars
    /\ [][(pc = "marquee" /\ stop /\ pc' # pc) => (pc' = "prep" /\ ~raised')]_vars
    /\ <>(pc # "marquee")

C10_Witness ==
    /\ pc = "marquee"
    /\ ~stop
    /\ geom.w > 0 /\ geom.gap > 0
    /\ offset = geom.width + geom.w + geom.gap
    /\ x = 1 - geom.w - geom.gap

---------------------------------------------------------------------------
(* The state of main while a helper is studied on its own *)

MainIdle ==
    /\ stop = FALSE
    /\ raised = FALSE
    /\ now = T(12, 0, 1)
    /\ current_brt = Target(now)
    /\ last_minute_for_dim = -1
    /\ last_rendered_minute = None
    /\ since_ticker = 0
    /\ s = NoStr
    /\ k = 0 /\ offset = 0 /\ dx = 0 /\ x = 0
    /\ device = [contrast |-> Target(now), last |-> "contrast", clears |-> 0,
                 time_shown |-> NoStr]
    /\ auto_dim = TRUE
    /\ sparkle_on_hour = TRUE
    /\ minute_swipe_en = TRUE
    /\ geom = [width |-> MainWidth, w |-> MainTextW, gap |-> MainGap]
    /\ ran = {}
    /\ repeat_sec = FALSE
    /\ passed_top = FALSE
    /\ after_stop = 0

mainVars == <<stop, progVars_noPc, cfgVars>>

---------------------------------------------------------------------------
(* _in_window on its own *)

WinHours == {0, 6, 7, 12, 22, 23}
WinMinutes == {0, 29, 30, 59}
WinHM == WinHours \X WinMinutes

WindowInit ==
    /\ pc = "call"
    /\ args \in [fn : {"_in_window"}, now : WinHM, start_hm : WinHM, end_hm : WinHM]
    /\ ret = [fn |-> "_in_window"]
    /\ MainIdle

WindowCall ==
    /\ pc = "call"
    /\ ret' = [fn |-> "_in_window",
               value |-> _in_window(T(args.now[1], args.now[2], 0),
                                    args.start_hm, args.end_hm)]
    /\ pc' = "ret"
    /\ UNCHANGED <<args, mainVars>>

WindowNext ==
    \/ WindowCall

WindowSpec == WindowInit /\ [][WindowNext]_vars

\* <<h, m>> pairs compared as times of day
HmLess(a, b) == a[1] < b[1] \/ (a[1] = b[1] /\ a[2] < b[2])
HmLeq(a, b) == a = b \/ HmLess(a, b)

\* C2: for start <= end _in_window is true iff start <= now < end (an empty
\* window when start = end); for start > end it is true iff now >= start or
\* now < end.
C2_InWindow ==
    pc = "ret" =>
        /\ HmLeq(args.start_hm, args.end_hm) =>
              (ret.value <=> (HmLeq(args.start_hm, args.now) /\ HmLess(args.now, args.end_hm)))
        /\ HmLess(args.end_hm, args.start_hm) =>
              (ret.value <=> (HmLeq(args.start_hm, args.now) \/ HmLess(args.now, args.end_hm)))
        /\ args.start_hm = args.end_hm => ~ret.value

C2_Witness ==
    /\ pc = "ret"
    /\ HmLess(args.end_hm, args.start_hm)
    /\ HmLess(args.now, args.end_hm)
    /\ ret.value

---------------------------------------------------------------------------
(* draw_time_with_custom_colon, lines 133-170 *)

\* lines 152-153 left out: the reserved width is never shrunk
ShrinkReservedNever(width, w_time, left_reserved) == left_reserved

\* lines 151-153: shrink the reserved left area
ShrinkReserved(width, w_time, left_reserved) ==
    IF left_reserved + w_time > width
    THEN Max(0, width - w_time)
    ELSE left_reserved

\* floor division by 2 of a possibly negative number (Python's // 2)
FloorHalf(n) == IF n >= 0 THEN n \div 2 ELSE -((1 - n) \div 2)

\* lines 147-170; w_h and w_m are what textsize() reports for hh and mm.
\* The result names the columns used: hh_x the hour text's first column, cx the
\* colon's column, mm_x the minute text's first column, mm_end the column after
\* its last; colon is the set of points drawn for the colon.
draw_time_with_custom_colon(width, w_h, w_m, blink, left_reserved, gap, colon_w, vgap, time_offset) ==
    LET w_time == w_h + gap + colon_w + gap + w_m
        lr     == ShrinkReserved(width, w_time, left_reserved)
        x0     == Max(0, width - (lr + w_time)) + time_offset
        y      == Max(0, FloorHalf(DeviceHeight - TextHeight))
        cx     == x0 + lr + w_h + gap
        t1     == y + Max(0, FloorHalf(TextHeight - 1 - vgap))
        t2     == Min(y + TextHeight - 1, t1 + vgap)
    IN  [ left_reserved |-> lr,
          x0     |-> x0,
          hh_x   |-> x0 + lr,
          cx     |-> cx,
          colon  |-> IF blink THEN {} ELSE {<<cx, t1>>, <<cx, t2>>},
          mm_x   |-> cx + colon_w + gap,
          mm_end |-> cx + colon_w + gap + w_m ]

DrawTimeOf(a) ==
    draw_time_with_custom_colon(a.width, a.w_h, a.w_m, a.blink, a.left_reserved,
                                1, 1, colon_vgap, a.time_offset)

LayoutInit ==
    /\ pc = "call"
    /\ args \in [width : DeviceWidths, w_h : 1..MaxTextPx, w_m : 1..MaxTextPx,
                 blink : BOOLEAN, left_reserved : 0..MaxReserved,
                 time_offset : 0..MaxOffset]
    /\ ret = [fn |-> "draw_time_with_custom_colon"]
    /\ MainIdle

\* the first frame
LayoutDraw ==
    /\ pc = "call"
    /\ ret' = DrawTimeOf(args)
    /\ pc' = "ret"
    /\ UNCHANGED <<args, mainVars>>

\* a later frame of the same time string: the colon may blink and the
\* temperature widget may reserve another width
LayoutRedraw ==
    /\ pc = "ret"
    /\ \E b \in BOOLEAN, r \in 0..MaxReserved :
          args' = [args EXCEPT !.blink = b, !.left_reserved = r]
    /\ ret' = DrawTimeOf(args')
    /\ pc' = "ret"
    /\ UNCHANGED mainVars

LayoutNext ==
    \/ LayoutDraw
    \/ LayoutRedraw

LayoutSpec == LayoutInit /\ [][LayoutNext]_vars

\* the width of the time text, line 149, as main calls the function
WTime(a) == a.w_h + 1 + 1 + 1 + a.w_m

\* C8 as stated: with time_offset = 0, for every left_reserved >= 0 and every
\* time-text width the hour text starts at column width - w_time, which is
\* >= 0, the minute text ends at the right edge, and the reserved width is
\* never enlarged.
C8_TimeAlwaysFits ==
    (pc = "ret" /\ args.time_offset = 0) =>
        /\ ret.hh_x = args.width - WTime(args)
        /\ ret.hh_x >= 0
        /\ ret.mm_end = args.width
        /\ ret.left_reserved <= args.left_reserved

\* C8 amended: the same for every time-text width w_time <= device.width; for
\* a wider text the hours start at column 0 and the minutes end past the right
\* edge. The reserved width is only shrunk, and only when left_reserved +
\* w_time exceeds the width; blinking the colon or changing the reservation
\* moves no column.
C8_TimeFitsWhenNarrowEnough ==
    /\ []((pc = "ret" /\ args.time_offset = 0 /\ WTime(args) <= args.width) =>
            /\ ret.hh_x = args.width - WTime(args)
            /\ ret.hh_x >= 0
            /\ ret.mm_end = args.width)
    /\ []((pc = "ret" /\ args.time_offset = 0 /\ WTime(args) > args.width) =>
            /\ ret.hh_x = 0
            /\ ret.mm_end = WTime(args)
            /\ ret.left_reserved = 0)
    /\ [](pc = "ret" =>
            /\ ret.left_reserved <= args.left_reserved
            /\ ret.left_reserved >= 0
            /\ (ret.left_reserved < args.left_reserved
                  => args.left_reserved + WTime(args) > args.width))
    /\ [][(pc = "ret" /\ pc' = "ret") =>
            /\ ret'.hh_x = ret.hh_x
            /\ ret'.cx = ret.cx
            /\ ret'.mm_x = ret.mm_x
            /\ ret'.mm_end = ret.mm_end
            /\ (ret'.colon = {}) <=> args'.blink]_vars

C8_Witness ==
    /\ pc = "ret"
    /\ args.time_offset = 0
    /\ WTime(args) < args.width
    /\ args.left_reserved + WTime(args) > args.width
    /\ ret.left_reserved = args.width - WTime(args)
    /\ ret.left_reserved > 0
    /\ args.blink

---------------------------------------------------------------------------
(* draw_seconds_bar, lines 195-204 *)

\* filled from the whole seconds alone, the sub-second fraction dropped
BarFilledWholeSeconds(second, microsecond, width) ==
    (width * second) \div 60

\* lines 197-198: filled = int(frac * width), frac the elapsed microseconds of
\* the minute over 60 000 000
BarFilled(second, microsecond, width) ==
    (width * (second * 1000000 + microsecond)) \div 60000000

\* lines 199-204: the columns lit
draw_seconds_bar(second, microsecond, width, dotted) ==
    LET filled == BarFilled(second, microsecond, width)
    IN  [ filled |-> filled,
          lit |-> IF dotted
                  THEN { 2 * i : i \in 0..((filled + 1) \div 2 - 1) }
                  ELSE 0..(filled - 1) ]

BarWidths == { 8 * c : c \in 1..cascaded }
BarMicros == { 0, 1, 124999, 125000, 500000, 874999, 875000, 999000, 999999 }

BarInit ==
    /\ pc = "call"
    /\ args \in [second : 0..59, microsecond : BarMicros, width : BarWidths,
                 dotted : BOOLEAN]
    /\ ret = [fn |-> "draw_seconds_bar"]
    /\ MainIdle

BarDrawOf(a) == draw_seconds_bar(a.second, a.microsecond, a.width, a.dotted)

\* the first frame
BarDraw ==
    /\ pc = "call"
    /\ ret' = BarDrawOf(args)
    /\ pc' = "ret"
    /\ UNCHANGED <<args, mainVars>>

\* a later frame within the same minute
BarAdvance ==
    /\ pc = "ret"
    /\ \E sec \in args.second..Min(59, args.second + 1), us \in BarMicros :
          /\ sec > args.second \/ us > args.microsecond
          /\ args' = [args EXCEPT !.second = sec, !.microsecond = us]
    /\ ret' = BarDrawOf(args')
    /\ pc' = "ret"
    /\ UNCHANGED mainVars

BarNext ==
    \/ BarDraw
    \/ BarAdvance

BarSpec == BarInit /\ [][BarNext]_vars

\* microseconds elapsed in the current minute
ElapsedUs(a) == a.second * 1000000 + a.microsecond

\* C9: the filled count is floor(width * elapsed / 60): it lies in 0..width,
\* does not decrease as time advances within a minute, is 0 at the minute
\* boundary and width - 1 = 31 at 59.999 s on the 32-pixel display; dotted mode
\* lights exactly the even columns below the count, plain mode every column
\* below it.
C9_SecondsBar ==
    /\ [](pc = "ret" =>
            /\ ret.filled * 60000000 <= args.width * ElapsedUs(args)
            /\ args.width * ElapsedUs(args) < (ret.filled + 1) * 60000000
            /\ ret.filled \in 0..args.width
            /\ (ElapsedUs(args) = 0 => ret.filled = 0)
            /\ ((args.second = 59 /\ args.microsecond = 999000 /\ args.width = 32)
                  => ret.filled = 31)
            /\ ret.lit = { c \in 0..(ret.filled - 1) : (~args.dotted) \/ c % 2 = 0 })
    /\ [][(pc = "ret" /\ pc' = "ret") => ret'.filled >= ret.filled]_vars

C9_Witness ==
    /\ pc = "ret"
    /\ args.second = 59 /\ args.microsecond = 999000 /\ args.width = 32
    /\ args.dotted
    /\ ret.filled = 31
    /\ 30 \in ret.lit /\ 29 \notin ret.lit

===========================================================================
